---- MODULE Spec2Model ----
(***************************************************************************)
(* Presentation-transformation pipeline of the rent-gouging dashboard:     *)
(* value formatting (listing_display.format_value), the listing table      *)
(* builder (listing_display.display_gouges_table), regional aggregation    *)
(* (map_display.prepare_table_data / app.prepare_table_data) and the table  *)
(* height policy (calculate_table_height).                                  *)
(*                                                                          *)
(* Strings are sequences of one-character strings, so that str.title(),    *)
(* str.lower(), concatenation and the ordering of group keys are computed   *)
(* rather than assumed.  A call that raises ends in an outcome whose        *)
(* status is "raised".                                                      *)
(***************************************************************************)
EXTENDS Integers, Sequences, FiniteSets, TLC

(***************************************************************************)
(* Bounds of the model.                                                     *)
(***************************************************************************)
MaxFeatures == 3
MaxCount == 3
MaxRows == 40
MaxStrLen == 3
MaxHalves == 5
MaxAddrLen == 2
MaxRenders == 3
MaxVersions == 1
MaxCalls == 2
MaxPureFeatures == 2
MaxTrendRows == 2
MaxTrendCount == 2
MaxDay == 8

(***************************************************************************)
(* Characters, in code-point order (Python compares str by code point).    *)
(***************************************************************************)
Punct == <<" ", "$", "%", "'", ",", "-", ".">>
Digits == <<"0", "1", "2", "3", "4", "5", "6", "7", "8", "9">>
UpperCase == <<"A", "B", "C", "D", "E", "F", "G", "H", "I", "J", "K", "L", "M",
               "N", "O", "P", "Q", "R", "S", "T", "U", "V", "W", "X", "Y", "Z">>
LowerCase == <<"a", "b", "c", "d", "e", "f", "g", "h", "i", "j", "k", "l", "m",
               "n", "o", "p", "q", "r", "s", "t", "u", "v", "w", "x", "y", "z">>
Colon == <<":">>
CodePoints == Punct \o Digits \o Colon \o UpperCase \o LowerCase

Range(s) == {s[i] : i \in 1..Len(s)}

\* ord(c), counted from the first character of the table
OrdTable == [c \in Range(CodePoints) |-> CHOOSE i \in 1..Len(CodePoints) : CodePoints[i] = c]
Ord(c) == OrdTable[c]

UpperSet == Range(UpperCase)
LowerSet == Range(LowerCase)
DigitSet == Range(Digits)
IsUpper(c) == c \in UpperSet
IsLower(c) == c \in LowerSet
IsCased(c) == IsUpper(c) \/ IsLower(c)
IsDigit(c) == c \in DigitSet

\* str.upper() and str.lower() of one character
UpperTable ==
    [c \in Range(CodePoints) |->
        IF c \in LowerSet THEN UpperCase[CHOOSE i \in 1..26 : LowerCase[i] = c] ELSE c]
LowerTable ==
    [c \in Range(CodePoints) |->
        IF c \in UpperSet THEN LowerCase[CHOOSE i \in 1..26 : UpperCase[i] = c] ELSE c]
ToUpper(c) == UpperTable[c]
ToLower(c) == LowerTable[c]

\* str.lower()
Lower(s) == [i \in 1..Len(s) |-> ToLower(s[i])]

\* str.title(): a cased character is upper-cased when the character before it
\* is not cased (or there is none), lower-cased otherwise.
Title(s) ==
    [i \in 1..Len(s) |->
        IF ~IsCased(s[i]) THEN s[i]
        ELSE IF i > 1 /\ IsCased(s[i - 1]) THEN ToLower(s[i])
        ELSE ToUpper(s[i])]

\* s < t for Python str
RECURSIVE StrLess(_, _)
StrLess(s, t) ==
    IF t = <<>> THEN FALSE
    ELSE IF s = <<>> THEN TRUE
    ELSE IF Head(s) = Head(t) THEN StrLess(Tail(s), Tail(t))
    ELSE Ord(Head(s)) < Ord(Head(t))

(***************************************************************************)
(* Region names of the feature collections the aggregation is run on.      *)
(***************************************************************************)
VanNuys == <<"V", "a", "n", " ", "N", "u", "y", "s">>
vanNuysLower == <<"v", "a", "n", " ", "n", "u", "y", "s">>
Burbank == <<"B", "u", "r", "b", "a", "n", "k">>
RegionNames == {VanNuys, vanNuysLower, Burbank}

\* f['properties'] of one feature
Properties == [region : RegionNames, gouged_listings : 0..MaxCount]

RECURSIVE SeqsUpTo(_, _)
SeqsUpTo(S, n) ==
    IF n = 0 THEN {<<>>}
    ELSE LET shorter == SeqsUpTo(S, n - 1)
         IN shorter \cup {Append(q, x) : q \in {r \in shorter : Len(r) = n - 1}, x \in S}

\* geojson_data['features'], each feature reduced to its properties
FeatureCollections == SeqsUpTo(Properties, MaxFeatures)

(***************************************************************************)
(* pandas: the operations prepare_table_data applies to its DataFrame.     *)
(***************************************************************************)
Raised(exc) == [status |-> "raised", exc |-> exc, columns |-> {}, rows |-> <<>>]
Returned(frame) ==
    [status |-> "returned", exc |-> "", columns |-> frame.columns, rows |-> frame.rows]
NotCalled == [status |-> "none", exc |-> "", columns |-> {}, rows |-> <<>>]

\* pd.DataFrame(list of dicts): a RangeIndex, the columns are the dicts' keys;
\* an empty list gives a frame without columns.
DataFrame(records) ==
    [columns |-> IF records = <<>> THEN {} ELSE {"region", "gouged_listings"},
     rows |-> [i \in 1..Len(records) |->
                 [index |-> i - 1,
                  region |-> records[i].region,
                  gouged_listings |-> records[i].gouged_listings]]]

\* the normalisation of the region names left out
TitleRegion_Skipped(frame) == frame

\* table_data['region'] = table_data['region'].str.title()
TitleRegion(frame) ==
    [frame EXCEPT !.rows =
        [i \in 1..Len(frame.rows) |->
            [frame.rows[i] EXCEPT !.region = Title(frame.rows[i].region)]]]

RECURSIVE SortKeys(_)
SortKeys(S) ==
    IF S = {} THEN <<>>
    ELSE LET least == CHOOSE x \in S : \A y \in S : ~StrLess(y, x)
         IN <<least>> \o SortKeys(S \ {least})

RECURSIVE SumWhere(_, _)
SumWhere(rows, key) ==
    IF rows = <<>> THEN 0
    ELSE (IF Head(rows).region = key THEN Head(rows).gouged_listings ELSE 0)
         + SumWhere(Tail(rows), key)

\* .first() in place of .sum(): a group keeps the count of its first row
GroupBySum_First(frame) ==
    LET keys == SortKeys({frame.rows[i].region : i \in 1..Len(frame.rows)})
    IN [columns |-> {"region", "gouged_listings"},
        rows |-> [k \in 1..Len(keys) |->
                    [index |-> k - 1,
                     region |-> keys[k],
                     gouged_listings |->
                        frame.rows[CHOOSE i \in 1..Len(frame.rows) :
                                      /\ frame.rows[i].region = keys[k]
                                      /\ \A m \in 1..(i - 1) : frame.rows[m].region # keys[k]
                                  ].gouged_listings]]]

\* groupby('region', as_index=False)['gouged_listings'].sum(): one row per key,
\* the keys in ascending order (sort=True), a fresh RangeIndex.
GroupBySum(frame) ==
    LET keys == SortKeys({frame.rows[i].region : i \in 1..Len(frame.rows)})
    IN [columns |-> {"region", "gouged_listings"},
        rows |-> [k \in 1..Len(keys) |->
                    [index |-> k - 1,
                     region |-> keys[k],
                     gouged_listings |-> SumWhere(frame.rows, keys[k])]]]

Descending(rows) ==
    \A i \in 1..(Len(rows) - 1) : rows[i].gouged_listings >= rows[i + 1].gouged_listings

Perms(n) == Permutations(1..n)

\* ascending=False left out
SortValuesDescending_Ascending(frame) ==
    {[frame EXCEPT !.rows = [i \in 1..Len(frame.rows) |-> frame.rows[p[i]]]] :
        p \in {q \in Perms(Len(frame.rows)) :
                 \A i \in 1..(Len(frame.rows) - 1) :
                    frame.rows[q[i]].gouged_listings <= frame.rows[q[i + 1]].gouged_listings}}

\* sort_values('gouged_listings', ascending=False) with the default
\* kind='quicksort', which is not stable: every arrangement of the rows that
\* is descending in the key is a possible result.
SortValuesDescending(frame) ==
    {[frame EXCEPT !.rows = [i \in 1..Len(frame.rows) |-> frame.rows[p[i]]]] :
        p \in {q \in Perms(Len(frame.rows)) :
                 Descending([i \in 1..Len(frame.rows) |-> frame.rows[q[i]]])}}

(***************************************************************************)
(* prepare_table_data: the set of outcomes of one call.                    *)
(***************************************************************************)

\* the rows grouped whatever is_city_data says
prepare_table_data_AlwaysMerge(geojson_data, is_city_data) ==
    LET frame == DataFrame(geojson_data)
    IN IF "region" \notin frame.columns
       THEN {Raised("KeyError")}
       ELSE {Returned(t) : t \in SortValuesDescending(GroupBySum(TitleRegion(frame)))}

prepare_table_data(geojson_data, is_city_data) ==
    LET table_data == DataFrame(geojson_data)
    IN IF is_city_data
       THEN IF "region" \notin table_data.columns
            THEN {Raised("KeyError")}
            ELSE {Returned(t) : t \in SortValuesDescending(GroupBySum(TitleRegion(table_data)))}
       ELSE IF "gouged_listings" \notin table_data.columns
            THEN {Raised("KeyError")}
            ELSE {Returned(t) : t \in SortValuesDescending(table_data)}

\* app.py carries its own copy of the function
app_prepare_table_data(geojson_data, is_city_data) ==
    LET table_data == DataFrame(geojson_data)
    IN IF is_city_data
       THEN IF "region" \notin table_data.columns
            THEN {Raised("KeyError")}
            ELSE {Returned(t) : t \in SortValuesDescending(GroupBySum(TitleRegion(table_data)))}
       ELSE IF "gouged_listings" \notin table_data.columns
            THEN {Raised("KeyError")}
            ELSE {Returned(t) : t \in SortValuesDescending(table_data)}

(***************************************************************************)
(* calculate_table_height                                                   *)
(***************************************************************************)
Min(a, b) == IF a <= b THEN a ELSE b
Max(a, b) == IF a >= b THEN a ELSE b

MIN_TABLE_HEIGHT == 200
MAX_TABLE_HEIGHT == 600
ROW_HEIGHT == 42

\* the lower limit left out
calculate_table_height_NoMinimum(num_rows) ==
    Min(num_rows * ROW_HEIGHT, MAX_TABLE_HEIGHT)

calculate_table_height(num_rows) ==
    Min(Max(num_rows * ROW_HEIGHT, MIN_TABLE_HEIGHT), MAX_TABLE_HEIGHT)

APP_MIN_TABLE_HEIGHT == 200
APP_MAX_TABLE_HEIGHT == 600
APP_ROW_HEIGHT == 42

app_calculate_table_height(num_rows) ==
    Min(Max(num_rows * APP_ROW_HEIGHT, APP_MIN_TABLE_HEIGHT), APP_MAX_TABLE_HEIGHT)

(***************************************************************************)
(* Python values held by a cell: None/NaN, a str, an int or a float.       *)
(* Numbers are non-negative and kept in halves (3 halves = 1.5), which      *)
(* binary floating point represents exactly.                                *)
(***************************************************************************)
Null == [kind |-> "null", chars |-> <<>>, halves |-> 0]
Str(s) == [kind |-> "str", chars |-> s, halves |-> 0]
IntV(n) == [kind |-> "int", chars |-> <<>>, halves |-> 2 * n]
FloatV(h) == [kind |-> "float", chars |-> <<>>, halves |-> h]

Value(v) == [status |-> "returned", exc |-> "", value |-> v]
Raise(exc) == [status |-> "raised", exc |-> exc, value |-> Null]

\* pd.isna(value)
isna(value) == value.kind = "null"

RECURSIVE IntToStr(_)
IntToStr(n) ==
    IF n < 10 THEN <<Digits[n + 1]>>
    ELSE IntToStr(n \div 10) \o <<Digits[(n % 10) + 1]>>

\* str.strip()
RECURSIVE LStrip(_)
LStrip(s) == IF s # <<>> /\ Head(s) = " " THEN LStrip(Tail(s)) ELSE s
RECURSIVE RStrip(_)
RStrip(s) ==
    IF s # <<>> /\ s[Len(s)] = " " THEN RStrip(SubSeq(s, 1, Len(s) - 1)) ELSE s
Strip(s) == RStrip(LStrip(s))

RECURSIVE DigitsValue(_)
DigitsValue(s) ==
    IF s = <<>> THEN 0
    ELSE 10 * DigitsValue(SubSeq(s, 1, Len(s) - 1)) + (Ord(s[Len(s)]) - Ord("0"))

\* int(str) and float(str) accept a run of digits between optional blanks (the
\* strings of the model hold no sign, point, exponent or underscore)
IsNumeral(s) == Strip(s) # <<>> /\ \A i \in 1..Len(Strip(s)) : IsDigit(Strip(s)[i])

\* str(value)
str(value) ==
    CASE value.kind = "str" -> value.chars
      [] value.kind = "int" -> IntToStr(value.halves \div 2)
      [] value.kind = "float" ->
            IntToStr(value.halves \div 2) \o <<".">>
                \o (IF value.halves % 2 = 0 THEN <<"0">> ELSE <<"5">>)
      [] OTHER -> <<"n", "a", "n">>

\* float(value): the number in halves, or -1 for a ValueError
float(value) ==
    CASE value.kind = "str" ->
            IF IsNumeral(value.chars) THEN 2 * DigitsValue(Strip(value.chars)) ELSE -1
      [] OTHER -> value.halves

\* int(value): truncation of a number, or -1 for a ValueError
int(value) ==
    CASE value.kind = "str" ->
            IF IsNumeral(value.chars) THEN DigitsValue(Strip(value.chars)) ELSE -1
      [] OTHER -> value.halves \div 2

\* halves rounded up
RoundHalfEven_Up(h) == (h + 1) \div 2

\* format spec ".0f" rounds the exact value half to even
RoundHalfEven(h) ==
    IF h % 2 = 0 THEN h \div 2
    ELSE IF (h \div 2) % 2 = 0 THEN h \div 2
    ELSE (h \div 2) + 1

Pad3(n) ==
    <<Digits[(n \div 100) + 1], Digits[((n \div 10) % 10) + 1], Digits[(n % 10) + 1]>>

\* format spec ",": groups of three digits
RECURSIVE WithCommas(_)
WithCommas(n) ==
    IF n < 1000 THEN IntToStr(n)
    ELSE WithCommas(n \div 1000) \o <<",">> \o Pad3(n % 1000)

\* 'YYYY-MM-DD', alone or followed by 'Thh:mm:ssZ'
IsIsoDate(s) ==
    /\ Len(s) \in {10, 20}
    /\ \A i \in {1, 2, 3, 4, 6, 7, 9, 10} : IsDigit(s[i])
    /\ s[5] = "-" /\ s[8] = "-"
    /\ DigitsValue(SubSeq(s, 6, 7)) \in 1..12
    /\ DigitsValue(SubSeq(s, 9, 10)) \in 1..28
    /\ Len(s) = 20 =>
          /\ s[11] = "T" /\ s[14] = ":" /\ s[17] = ":" /\ s[20] = "Z"
          /\ \A i \in {12, 13, 15, 16, 18, 19} : IsDigit(s[i])
          /\ DigitsValue(SubSeq(s, 12, 13)) < 24
          /\ DigitsValue(SubSeq(s, 15, 16)) < 60
          /\ DigitsValue(SubSeq(s, 18, 19)) < 60

Epoch == <<"1", "9", "7", "0", "-", "0", "1", "-", "0", "1">>
ParseError == <<>>

\* pd.to_datetime(value).strftime('%Y-%m-%d'): the possible results, ParseError
\* standing for an exception.  A small number is a count of nanoseconds since
\* the epoch.  What dateutil makes of a string that is no ISO date is not
\* decided here: it may reject it or read some date out of it.
to_datetime_strftime(value) ==
    CASE value.kind = "str" ->
            IF IsIsoDate(value.chars) THEN {SubSeq(value.chars, 1, 10)}
            ELSE {ParseError, Epoch}
      [] OTHER -> {Epoch}

\* errors coerced: a value that is no date becomes NaT
format_date_Coerce(value, d) ==
    IF d = ParseError THEN Value(Null) ELSE Value(Str(d))

\* try: return pd.to_datetime(value).strftime('%Y-%m-%d')  except: return value
\* where d is what the try block yields
format_date(value, d) ==
    IF d = ParseError THEN Value(value) ELSE Value(Str(d))

(***************************************************************************)
(* format_value: the set of outcomes of one call.                           *)
(***************************************************************************)
format_value(value, format_type, column_name) ==
    IF isna(value) THEN {Value(value)}
    ELSE CASE format_type = "date" ->
                {format_date(value, d) : d \in to_datetime_strftime(value)}
           [] format_type = "percent" ->
                IF float(value) = -1 THEN {Value(value)}
                ELSE {Value(Str(IntToStr(RoundHalfEven(float(value) * 100)) \o <<"%">>))}
           [] format_type = "currency" ->
                IF float(value) = -1 THEN {Value(value)}
                ELSE {Value(Str(<<"$">> \o WithCommas(RoundHalfEven(float(value)))))}
           [] format_type = "text" ->
                IF column_name = "bedrooms"
                THEN IF int(value) = -1 THEN {Raise("ValueError")}
                     ELSE {Value(Str(IntToStr(int(value)) \o <<"B", "R">>))}
                ELSE {Value(Str(Title(str(value))))}
           [] OTHER -> {Value(value)}

(***************************************************************************)
(* Inputs of format_value.                                                  *)
(***************************************************************************)
FormatChars == {"a", "B", " ", "1"}
IsoDay == <<"2", "0", "2", "4", "-", "0", "3", "-", "0", "5">>
IsoInstant == IsoDay \o <<"T", "0", "0", ":", "0", "0", ":", "0", "0", "Z">>
\* 1234.5, 1235.5 and 1,000,000 in halves
LargeHalves == {2469, 2471, 2000000}
FormatValues ==
    {Null}
    \cup {Str(s) : s \in SeqsUpTo(FormatChars, MaxStrLen) \cup {IsoDay, IsoInstant}}
    \cup {IntV(n) : n \in 0..(MaxHalves \div 2)}
    \cup {FloatV(h) : h \in (0..MaxHalves) \cup LargeHalves}
FormatTypes == {"date", "percent", "currency", "text", "link"}
\* column_name: the bedrooms hint, another column, or the default None
ColumnHints == {"bedrooms", "address", "None"}

(***************************************************************************)
(* The column registry, in the order of the dict create_column_config()    *)
(* returns.                                                                 *)
(***************************************************************************)
create_column_config == <<
    [field |-> "listing_url", name |-> "Link", display |-> TRUE, is_link |-> TRUE,
     format_type |-> "link", width |-> "None"],
    [field |-> "address", name |-> "Address", display |-> TRUE, is_link |-> FALSE,
     format_type |-> "text", width |-> "None"],
    [field |-> "zipcode", name |-> "Zip Code", display |-> FALSE, is_link |-> FALSE,
     format_type |-> "text", width |-> "None"],
    [field |-> "city", name |-> "City", display |-> TRUE, is_link |-> FALSE,
     format_type |-> "text", width |-> "None"],
    [field |-> "bedrooms", name |-> "Type", display |-> TRUE, is_link |-> FALSE,
     format_type |-> "text", width |-> "None"],
    [field |-> "home_type", name |-> "Home Type", display |-> FALSE, is_link |-> FALSE,
     format_type |-> "text", width |-> "None"],
    [field |-> "fair_market_rent", name |-> "Fair Market Rent", display |-> FALSE, is_link |-> FALSE,
     format_type |-> "currency", width |-> "None"],
    [field |-> "base_price", name |-> "Base Price", display |-> TRUE, is_link |-> FALSE,
     format_type |-> "currency", width |-> "None"],
    [field |-> "max_legal_rent", name |-> "Max Legal Rent", display |-> FALSE, is_link |-> FALSE,
     format_type |-> "currency", width |-> "None"],
    [field |-> "base_price_date", name |-> "Base Price Date", display |-> FALSE, is_link |-> FALSE,
     format_type |-> "date", width |-> "None"],
    [field |-> "emergency_peak_price", name |-> "Emergency Peak Price", display |-> FALSE, is_link |-> FALSE,
     format_type |-> "currency", width |-> "None"],
    [field |-> "emergency_peak_price_date", name |-> "Emergency Peak Price Date", display |-> FALSE, is_link |-> FALSE,
     format_type |-> "date", width |-> "None"],
    [field |-> "latest_price", name |-> "Price", display |-> TRUE, is_link |-> FALSE,
     format_type |-> "currency", width |-> "None"],
    [field |-> "latest_price_date", name |-> "Latest Price Date", display |-> FALSE, is_link |-> FALSE,
     format_type |-> "date", width |-> "None"],
    [field |-> "peak_price_vs_fmr", name |-> "Peak Price vs FMR", display |-> FALSE, is_link |-> FALSE,
     format_type |-> "percent", width |-> "None"],
    [field |-> "base_vs_peak_price", name |-> "Base vs Peak Price", display |-> FALSE, is_link |-> FALSE,
     format_type |-> "percent", width |-> "None"],
    [field |-> "base_vs_latest_price", name |-> "% Increase", display |-> TRUE, is_link |-> FALSE,
     format_type |-> "percent", width |-> "None"],
    [field |-> "first_gouged_price", name |-> "First Gouged Price", display |-> FALSE, is_link |-> FALSE,
     format_type |-> "currency", width |-> "None"],
    [field |-> "first_gouged_date", name |-> "First Gouged Date", display |-> FALSE, is_link |-> FALSE,
     format_type |-> "date", width |-> "None"]>>

\* column_config[col]
Config(column_config, col) ==
    CHOOSE c \in Range(column_config) : c.field = col

\* the display flag not looked at
DisplayColumns_All(column_config) ==
    [i \in 1..Len(column_config) |-> column_config[i].field]

\* link columns left out of the selection
DisplayColumns_NoLinks(column_config) ==
    LET shown == SelectSeq(column_config, LAMBDA c : c.display /\ ~c.is_link)
    IN [i \in 1..Len(shown) |-> shown[i].field]

\* [col for col, config in column_config.items() if config["display"]]
DisplayColumns(column_config) ==
    LET shown == SelectSeq(column_config, LAMBDA c : c.display)
    IN [i \in 1..Len(shown) |-> shown[i].field]

(***************************************************************************)
(* display_gouges_table.  A DataFrame is its columns and its rows, a row a  *)
(* function from the columns to values; df_display keeps its columns in     *)
(* order.                                                                   *)
(***************************************************************************)
TableRaised(exc) ==
    [status |-> "raised", exc |-> exc, columns |-> <<>>, rows |-> <<>>, directives |-> <<>>]
TableNotCalled ==
    [status |-> "none", exc |-> "", columns |-> <<>>, rows |-> <<>>, directives |-> <<>>]

\* Series.str.lower().str.title(): NaN where the element is no str
StrLowerTitle(value) ==
    IF value.kind = "str" THEN Str(Title(Lower(value.chars))) ELSE Null

\* element-wise + of object Series: NaN where either side is NaN
Concat3(a, sep, b) ==
    IF a.kind = "str" /\ b.kind = "str" THEN Str(a.chars \o sep \o b.chars) ELSE Null

\* df_display["address"] = df_display["address"].str.lower().str.title() + ", "
\*                         + df_display["city"].str.lower().str.title()
CombineAddressCity(rows) ==
    [i \in 1..Len(rows) |->
        [rows[i] EXCEPT !["address"] =
            Concat3(StrLowerTitle(rows[i]["address"]), <<",", " ">>,
                    StrLowerTitle(rows[i]["city"]))]]

\* the city column left in the table
DropCity_Kept(columns) == columns

\* df_display.drop(columns=["city"]), done when "city" is a column
DropCity(columns) == SelectSeq(columns, LAMBDA c : c # "city")

\* df_display[col].apply(lambda x: format_value(x, config["format_type"], col))
\* for every column whose format_type is not "link": the possible rows of cell
\* outcomes, as functions from the columns
RECURSIVE FormatRow(_, _, _)
FormatRow(row, columns, column_config) ==
    IF columns = <<>> THEN {<<>>}
    ELSE LET col == Head(columns)
             config == Config(column_config, col)
             cells == IF config.format_type # "link"
                      THEN format_value(row[col], config.format_type, col)
                      ELSE {Value(row[col])}
         IN {(col :> c) @@ rest :
                c \in cells, rest \in FormatRow(row, Tail(columns), column_config)}

RECURSIVE FormatRows(_, _, _)
FormatRows(rows, columns, column_config) ==
    IF rows = <<>> THEN {<<>>}
    ELSE {<<r>> \o rest :
             r \in FormatRow(Head(rows), columns, column_config),
             rest \in FormatRows(Tail(rows), columns, column_config)}

\* the ProgressColumn branch left out
Directive_NoProgress(column_config, col) ==
    LET config == Config(column_config, col)
    IN [column |-> col,
        label |-> config.name,
        width |-> config.width,
        mode |-> IF config.is_link THEN "link" ELSE "text",
        max_value |-> 0]

\* st_column_config[col]
Directive(column_config, col) ==
    LET config == Config(column_config, col)
    IN [column |-> col,
        label |-> config.name,
        width |-> config.width,
        mode |-> IF config.is_link THEN "link"
                 ELSE IF col = "base_vs_latest_price" THEN "progress"
                 ELSE "text",
        max_value |-> IF ~config.is_link /\ col = "base_vs_latest_price" THEN 200 ELSE 0]

display_gouges_table(df, column_config) ==
    LET display_columns == DisplayColumns(column_config)
    IN IF \E i \in 1..Len(display_columns) : display_columns[i] \notin df.columns
       THEN {TableRaised("KeyError")}
       ELSE
       LET selected == [i \in 1..Len(df.rows) |->
                          [c \in Range(display_columns) |-> df.rows[i][c]]]
       IN IF "address" \notin Range(display_columns) \/ "city" \notin Range(display_columns)
          THEN {TableRaised("KeyError")}
          ELSE
          LET combined == CombineAddressCity(selected)
              columns == DropCity(display_columns)
          IN {IF \E i \in 1..Len(cells) : \E c \in Range(columns) :
                     cells[i][c].status = "raised"
              THEN TableRaised("ValueError")
              ELSE [status |-> "returned", exc |-> "",
                    columns |-> columns,
                    rows |-> [i \in 1..Len(cells) |->
                                [c \in Range(columns) |-> cells[i][c].value]],
                    directives |-> [j \in 1..Len(columns) |->
                                      Directive(column_config, columns[j])]] :
                 cells \in FormatRows(combined, columns, column_config)}

(***************************************************************************)
(* Inputs of display_gouges_table: frames of one listing.  Beside the       *)
(* columns the registry shows, a frame may carry a hidden registry field    *)
(* and a field the registry does not know, and may lack a shown one.        *)
(***************************************************************************)
AddrChars == {"a", "B", " "}
MainSt == <<"1", "2", "3", " ", "m", "a", "i", "n", " ", "s", "t">>
LosAngeles == <<"l", "o", "s", " ", "a", "n", "g", "e", "l", "e", "s">>
AddressValues == {Null, Str(MainSt)} \cup {Str(s) : s \in SeqsUpTo(AddrChars, MaxAddrLen)}
CityValues == {Null, Str(LosAngeles)} \cup {Str(s) : s \in SeqsUpTo(AddrChars, MaxAddrLen)}
BedroomValues == {IntV(2), FloatV(5), Str(<<"a">>)}
ShownFields == Range(DisplayColumns(create_column_config))
ExtraFieldSets == SUBSET {"zipcode", "scraped_at"}
MissingFieldSets == {{}, {"address"}, {"city"}, {"base_price"}}
Url == <<"a">>

ListingRow(columns, address, city, bedrooms) ==
    [c \in columns |->
        CASE c = "address" -> address
          [] c = "city" -> city
          [] c = "bedrooms" -> bedrooms
          [] c = "listing_url" -> Str(Url)
          [] c = "base_price" -> IntV(2)
          [] c = "latest_price" -> FloatV(2469)
          [] c = "base_vs_latest_price" -> FloatV(1)
          [] OTHER -> Str(<<"1">>)]

ListingFrames ==
    {[columns |-> (ShownFields \cup extra) \ missing,
      rows |-> <<ListingRow((ShownFields \cup extra) \ missing, a, c, b)>>] :
        extra \in ExtraFieldSets, missing \in MissingFieldSets,
        a \in AddressValues, c \in CityValues, b \in BedroomValues}

(***************************************************************************)
(* app.main, "Particularly Egregious Gouges": the selection list sent to    *)
(* the data source, the frame built from its reply, the sort and the table. *)
(***************************************************************************)
\* supabase.table('egregious_gouges').select(','.join(display_columns)).execute():
\* the replies, each record carrying exactly the fields selected
EgregiousGouges(display_columns) ==
    {<<>>} \cup
    {<<ListingRow(Range(display_columns), a, c, b)>> :
        a \in AddressValues, c \in CityValues, b \in BedroomValues}

\* pd.DataFrame(gouges_data.data)
ListingFrame(records) ==
    [columns |-> IF records = <<>> THEN {} ELSE DOMAIN records[1],
     rows |-> records]

\* df_gouges.sort_values("base_vs_latest_price", ascending=False): NaN last, the
\* others descending, ties in any order
SortByIncrease(frame) ==
    {[frame EXCEPT !.rows = [i \in 1..Len(frame.rows) |-> frame.rows[p[i]]]] :
        p \in {q \in Perms(Len(frame.rows)) :
                 \A i \in 1..(Len(frame.rows) - 1) :
                    LET x == frame.rows[q[i]]["base_vs_latest_price"]
                        y == frame.rows[q[i + 1]]["base_vs_latest_price"]
                    IN isna(y) \/ (~isna(x) /\ x.halves >= y.halves)}}

\* lines 310-312: the outcomes of sorting and displaying df_gouges
show_egregious_gouges(df_gouges, registry) ==
    IF "base_vs_latest_price" \notin df_gouges.columns
    THEN {TableRaised("KeyError")}
    ELSE UNION {display_gouges_table(sorted, registry) : sorted \in SortByIncrease(df_gouges)}

(***************************************************************************)
(* Map section: MAP_CONFIGS, the two st.cache_data caches, the data         *)
(* service, and display_map_section.                                        *)
(***************************************************************************)
MAP_CONFIGS == <<
    [label |-> "Supervisor Districts", table_name |-> "supervisor_geojson",
     col_name |-> "District", zoom_start |-> 9],
    [label |-> "Council Districts", table_name |-> "council_geojson",
     col_name |-> "District", zoom_start |-> 10],
    [label |-> "ZIP Codes", table_name |-> "zipcode_geojson",
     col_name |-> "ZIP Code", zoom_start |-> 9],
    [label |-> "Cities", table_name |-> "city_geojson",
     col_name |-> "City", zoom_start |-> 9]>>

\* list(MAP_CONFIGS.keys())
Labels == {MAP_CONFIGS[i].label : i \in 1..Len(MAP_CONFIGS)}
\* MAP_CONFIGS[selected_label]
MapConfig(selected_label) ==
    CHOOSE cfg \in Range(MAP_CONFIGS) : cfg.label = selected_label

\* What the data service holds for a table at a revision of its data: coded
\* regions for the districts and ZIP codes, city names with casing duplicates
\* for the cities.  No collection is empty.
Acton == <<"A", "c", "t", "o", "n">>
Carson == <<"C", "a", "r", "s", "o", "n">>
Malibu == <<"M", "a", "l", "i", "b", "u">>
CityNames == <<VanNuys, Burbank, Acton, Carson, Malibu>>

CodedFeatures(n, version) ==
    [i \in 1..n |->
        [region |-> <<Digits[i + 1]>>,
         gouged_listings |-> Max((i * (version + 1)) % 7, 2)]]

CityFeatures(version) ==
    [i \in 1..Len(CityNames) |->
        [region |-> CityNames[i], gouged_listings |-> i + version]]
    \o [i \in 1..(1 + version) |->
        [region |-> Lower(CityNames[i]), gouged_listings |-> 1]]

ServiceData(table_name, version) ==
    CASE table_name = "supervisor_geojson" -> CodedFeatures(5, version)
      [] table_name = "council_geojson" -> CodedFeatures(6, version)
      [] table_name = "zipcode_geojson" -> CodedFeatures(4 + version, version)
      [] OTHER -> CityFeatures(version)

\* the cache never consulted
CacheHit_Never(cache, key) == FALSE

\* @st.cache_data: a call whose arguments (those not starting with '_') were
\* seen before is served from the cache
CacheHit(cache, key) == key \in DOMAIN cache

\* fetch_geojson_data(_supabase_client, table_name), the client being the data
\* service at its revision and the log of what it sent: the returned value and
\* the cache and log after the call
fetch_geojson_data(cache, log, version, table_name) ==
    IF CacheHit(cache, table_name)
    THEN [value |-> cache[table_name], geo_cache |-> cache, query_log |-> log]
    ELSE LET geojson == ServiceData(table_name, version)
         IN [value |-> geojson,
             geo_cache |-> (table_name :> geojson) @@ cache,
             query_log |-> (table_name :>
                              (IF table_name \in DOMAIN log THEN log[table_name] ELSE <<>>)
                                  \o <<geojson>>) @@ log]

\* 'cities_geojson' written for 'city_geojson'
IsCityData_Misspelt(cfg) == cfg.table_name = "cities_geojson"

\* cfg["table_name"] == 'city_geojson'
IsCityData(cfg) == cfg.table_name = "city_geojson"

\* create_map_data(_supabase_client, selected_label): the returned dict and the
\* caches and log after the call
create_map_data(mcache, gcache, log, version, selected_label) ==
    IF CacheHit(mcache, selected_label)
    THEN [value |-> mcache[selected_label],
          map_cache |-> mcache, geo_cache |-> gcache, query_log |-> log]
    ELSE LET cfg == MapConfig(selected_label)
             fetched == fetch_geojson_data(gcache, log, version, cfg.table_name)
             data == [geojson_data |-> fetched.value,
                      is_city_data |-> IsCityData(cfg),
                      col_name |-> cfg.col_name,
                      zoom_start |-> cfg.zoom_start]
         IN [value |-> data,
             map_cache |-> (selected_label :> data) @@ mcache,
             geo_cache |-> fetched.geo_cache,
             query_log |-> fetched.query_log]

\* the height taken from the number of features
MapTableHeight_OfFeatures(table, geojson_data) ==
    calculate_table_height(Len(geojson_data))

\* dynamic_height = calculate_table_height(len(table_data))
MapTableHeight(table, geojson_data) ==
    calculate_table_height(Len(table.rows))

\* display_map_section from the cached data on: the possible runs
display_map_section(selected_label, cached_data) ==
    {[status |-> IF out.status = "raised" THEN "raised" ELSE "rendered",
      selected_label |-> selected_label,
      is_city_data |-> cached_data.is_city_data,
      geojson_data |-> cached_data.geojson_data,
      table_data |-> out,
      height |-> IF out.status = "raised" THEN -1
                 ELSE MapTableHeight(out, cached_data.geojson_data)] :
        out \in prepare_table_data(cached_data.geojson_data, cached_data.is_city_data)}

(***************************************************************************)
(* What a call leaves of its arguments.  prepare_table_data builds a new    *)
(* frame from the features' properties and works on that; display_gouges_   *)
(* table works on a copy of the selected columns and only reads the         *)
(* registry.                                                                *)
(***************************************************************************)
\* the region names normalised in the features themselves
geojson_data_after_InPlace(geojson_data, is_city_data) ==
    IF is_city_data
    THEN [i \in 1..Len(geojson_data) |->
            [geojson_data[i] EXCEPT !.region = Title(geojson_data[i].region)]]
    ELSE geojson_data

\* table_data = pd.DataFrame([f['properties'] for f in geojson_data['features']]):
\* every later assignment is to table_data
geojson_data_after(geojson_data, is_city_data) == geojson_data

\* df_display = df[display_columns].copy(): every later assignment is to df_display
df_after(df_in, registry) == df_in

\* column_config is only iterated and indexed
column_config_after(df_in, registry) == registry

PureListingFrames ==
    {[columns |-> (ShownFields \cup extra) \ missing,
      rows |-> <<ListingRow((ShownFields \cup extra) \ missing, a, c, b)>>] :
        extra \in ExtraFieldSets, missing \in MissingFieldSets,
        a \in {Null, Str(MainSt)}, c \in {Null, Str(LosAngeles)}, b \in BedroomValues}

(***************************************************************************)
(* app.main, the 7-day trend metric.  Dates are whole days, counted from    *)
(* some day 0; every row of agg_by_date carries a date.                     *)
(***************************************************************************)
TrendRow == [first_gouged_price_date : 1..MaxDay, gouged_listings : -1..MaxTrendCount]

\* df_gouged_by_date[...]['gouged_listings'].sum()
RECURSIVE SumListings(_)
SumListings(rows) ==
    IF rows = <<>> THEN 0
    ELSE Head(rows).gouged_listings + SumListings(Tail(rows))

\* df_gouged_by_date['first_gouged_price_date'].max()
MaxDate(rows) ==
    CHOOSE d \in {rows[i].first_gouged_price_date : i \in 1..Len(rows)} :
        \A i \in 1..Len(rows) : rows[i].first_gouged_price_date <= d

\* max(<latest date> + pd.Timedelta(days=1), pd.Timestamp.now().normalize())
LastUpdateDate(rows, today) == Max(MaxDate(rows) + 1, today)

\* last_update_date - pd.Timedelta(days=7)
SevenDaysAgo(rows, today) == LastUpdateDate(rows, today) - 7

\* df_gouged_by_date[df_gouged_by_date['first_gouged_price_date'] > seven_days_ago]
RecentGouged(rows, seven_days_ago) ==
    SelectSeq(rows, LAMBDA r : r.first_gouged_price_date > seven_days_ago)

\* the threshold day itself left out
PriorToSevenDays_Before(rows, seven_days_ago) ==
    SelectSeq(rows, LAMBDA r : r.first_gouged_price_date < seven_days_ago)

\* df_gouged_by_date[df_gouged_by_date['first_gouged_price_date'] <= seven_days_ago]
PriorToSevenDays(rows, seven_days_ago) ==
    SelectSeq(rows, LAMBDA r : r.first_gouged_price_date <= seven_days_ago)

\* The metric of main.  An empty reply gives a frame without columns and the
\* first column access raises.  delta_percent is delta_num / delta_den; a
\* delta_den of 0 stands for the NaN or infinity of a division by zero.
TrendMetric(rows, today) ==
    IF rows = <<>>
    THEN [status |-> "raised", total_gouged |-> 0, last_seven_days |-> 0,
          prior_to_seven_days_total |-> 0, divided |-> FALSE,
          delta_num |-> 0, delta_den |-> 1]
    ELSE
    LET total_gouged == SumListings(rows)
        seven_days_ago == SevenDaysAgo(rows, today)
        last_seven_days == SumListings(RecentGouged(rows, seven_days_ago))
        prior_to_seven_days_total == SumListings(PriorToSevenDays(rows, seven_days_ago))
        divided == prior_to_seven_days_total > 0
    IN [status |-> "computed",
        total_gouged |-> total_gouged,
        last_seven_days |-> last_seven_days,
        prior_to_seven_days_total |-> prior_to_seven_days_total,
        divided |-> divided,
        delta_num |-> IF divided THEN (total_gouged - prior_to_seven_days_total) * 100 ELSE 0,
        delta_den |-> IF divided THEN total_gouged ELSE 1]

(***************************************************************************)
(* State.                                                                   *)
(***************************************************************************)
VARIABLES
    features,       \* geojson_data['features'] handed to prepare_table_data
    is_city,        \* its is_city_data argument
    table_data,     \* the outcome of the call
    agg_caller,     \* which copy of prepare_table_data ran
    num_rows,       \* argument of calculate_table_height
    height,         \* its result, -1 before the call
    height_caller,  \* which copy of calculate_table_height ran
    fv_value,       \* arguments of format_value
    fv_type,
    fv_column,
    fv_result,      \* its outcome
    fv_parse,       \* how pd.to_datetime went in the call: "none", "parsed", "error"
    df,             \* the listing frame handed to display_gouges_table
    df_display,     \* the outcome of display_gouges_table
    column_config,  \* the registry object handed to display_gouges_table
    calls,          \* number of calls made on the same inputs
    main,           \* app.main, egregious gouges section: position and selection list
    map_cache,      \* st.cache_data of create_map_data, by selected_label
    geo_cache,      \* st.cache_data of fetch_geojson_data, by table_name
    query_log,      \* per table, the feature collections the data service sent
    service_version,\* revision of the data held by the data service
    map_section,    \* the last run of display_map_section
    map_runs,       \* renders, aggregations and sizings done so far
    trend_in,       \* agg_by_date rows and today's date, in days
    trend           \* the 7-day trend metric computed from them

vars == <<features, is_city, table_data, agg_caller, num_rows, height, height_caller,
          fv_value, fv_type, fv_column, fv_result, fv_parse, df, df_display,
          column_config, calls, main, map_cache, geo_cache, query_log, service_version,
          map_section, map_runs, trend_in, trend>>

aggVars == <<features, is_city, table_data, agg_caller>>
heightVars == <<num_rows, height, height_caller>>
formatVars == <<fv_value, fv_type, fv_column, fv_result, fv_parse>>
tableVars == <<df, df_display>>
pureVars == <<column_config, calls>>
mainVars == <<main>>
mapVars == <<map_cache, geo_cache, query_log, service_version, map_section, map_runs>>
trendVars == <<trend_in, trend>>
otherVars == <<pureVars, mainVars, mapVars, trendVars>>

FormatNotCalled == [status |-> "none", exc |-> "", value |-> Null]

AggIdle ==
    /\ features = <<>>
    /\ is_city = FALSE
    /\ table_data = NotCalled
    /\ agg_caller = "none"

HeightIdle ==
    /\ num_rows = 0
    /\ height = -1
    /\ height_caller = "none"

FormatIdle ==
    /\ fv_value = Null
    /\ fv_type = "text"
    /\ fv_column = "None"
    /\ fv_result = FormatNotCalled
    /\ fv_parse = "none"

TableIdle ==
    /\ df = [columns |-> {}, rows |-> <<>>]
    /\ df_display = TableNotCalled

PureIdle ==
    /\ column_config = create_column_config
    /\ calls = 0

MainIdle == main = [pc |-> "start", selection |-> <<>>]

MapSectionNotRun ==
    [status |-> "none", selected_label |-> "", is_city_data |-> FALSE,
     geojson_data |-> <<>>, table_data |-> NotCalled, height |-> -1]

MapIdle ==
    /\ map_cache = <<>>
    /\ geo_cache = <<>>
    /\ query_log = <<>>
    /\ service_version = 0
    /\ map_section = MapSectionNotRun
    /\ map_runs = [renders |-> 0, aggregations |-> 0, sizings |-> 0]

TrendNotComputed ==
    [status |-> "none", total_gouged |-> 0, last_seven_days |-> 0,
     prior_to_seven_days_total |-> 0, divided |-> FALSE, delta_num |-> 0, delta_den |-> 1]

TrendIdle ==
    /\ trend_in = [rows |-> <<>>, today |-> 0]
    /\ trend = TrendNotComputed

OthersIdle == PureIdle /\ MainIdle /\ MapIdle /\ TrendIdle

(***************************************************************************)
(* Aggregation: one call of prepare_table_data on any feature collection.  *)
(***************************************************************************)
InitAgg ==
    /\ features \in FeatureCollections
    /\ is_city \in BOOLEAN
    /\ table_data = NotCalled
    /\ agg_caller = "none"
    /\ HeightIdle /\ FormatIdle /\ TableIdle /\ OthersIdle

PrepareTableData ==
    /\ agg_caller = "none"
    /\ \E out \in prepare_table_data(features, is_city) : table_data' = out
    /\ agg_caller' = "map_display"
    /\ UNCHANGED <<features, is_city, heightVars, formatVars, tableVars, otherVars>>

AppPrepareTableData ==
    /\ agg_caller = "none"
    /\ \E out \in app_prepare_table_data(features, is_city) : table_data' = out
    /\ agg_caller' = "app"
    /\ UNCHANGED <<features, is_city, heightVars, formatVars, tableVars, otherVars>>

NextAgg == PrepareTableData \/ AppPrepareTableData

SpecAgg == InitAgg /\ [][NextAgg]_vars

(***************************************************************************)
(* Sizing: one call of calculate_table_height on any row count.            *)
(***************************************************************************)
InitHeight ==
    /\ num_rows \in 0..MaxRows
    /\ height = -1
    /\ height_caller = "none"
    /\ AggIdle /\ FormatIdle /\ TableIdle /\ OthersIdle

CalculateTableHeight ==
    /\ height_caller = "none"
    /\ height' = calculate_table_height(num_rows)
    /\ height_caller' = "map_display"
    /\ UNCHANGED <<num_rows, aggVars, formatVars, tableVars, otherVars>>

AppCalculateTableHeight ==
    /\ height_caller = "none"
    /\ height' = app_calculate_table_height(num_rows)
    /\ height_caller' = "app"
    /\ UNCHANGED <<num_rows, aggVars, formatVars, tableVars, otherVars>>

NextHeight == CalculateTableHeight \/ AppCalculateTableHeight

SpecHeight == InitHeight /\ [][NextHeight]_vars

(***************************************************************************)
(* Formatting: one call of format_value on any value, type and hint.       *)
(***************************************************************************)
InitFormat ==
    /\ fv_value \in FormatValues
    /\ fv_type \in FormatTypes
    /\ fv_column \in ColumnHints
    /\ fv_result = FormatNotCalled
    /\ fv_parse = "none"
    /\ AggIdle /\ HeightIdle /\ TableIdle /\ OthersIdle

FormatValue ==
    /\ fv_result.status = "none"
    /\ \E d \in to_datetime_strftime(fv_value) :
          LET dated == fv_type = "date" /\ ~isna(fv_value)
          IN /\ \E out \in format_value(fv_value, fv_type, fv_column) :
                  /\ dated => out = format_date(fv_value, d)
                  /\ fv_result' = out
             /\ fv_parse' = IF ~dated THEN "none"
                            ELSE IF d = ParseError THEN "error" ELSE "parsed"
    /\ UNCHANGED <<fv_value, fv_type, fv_column, aggVars, heightVars, tableVars, otherVars>>

NextFormat == FormatValue

SpecFormat == InitFormat /\ [][NextFormat]_vars

(***************************************************************************)
(* Listing table: one call of display_gouges_table with the registry.      *)
(***************************************************************************)
InitTable ==
    /\ df \in ListingFrames
    /\ df_display = TableNotCalled
    /\ AggIdle /\ HeightIdle /\ FormatIdle /\ OthersIdle

DisplayGougesTable ==
    /\ df_display.status = "none"
    /\ \E out \in display_gouges_table(df, create_column_config) : df_display' = out
    /\ UNCHANGED <<df, aggVars, heightVars, formatVars, otherVars>>

NextTable == DisplayGougesTable

SpecTable == InitTable /\ [][NextTable]_vars

(***************************************************************************)
(* Egregious gouges section of app.main: query, then sort and display.     *)
(***************************************************************************)
InitMain ==
    /\ main = [pc |-> "start", selection |-> <<>>]
    /\ column_config = create_column_config
    /\ calls = 0
    /\ AggIdle /\ HeightIdle /\ FormatIdle /\ TableIdle /\ MapIdle /\ TrendIdle

QueryEgregiousGouges ==
    /\ main.pc = "start"
    /\ LET display_columns == DisplayColumns(column_config)
       IN /\ main' = [pc |-> "fetched", selection |-> display_columns]
          /\ \E data \in EgregiousGouges(display_columns) : df' = ListingFrame(data)
    /\ UNCHANGED <<df_display, aggVars, heightVars, formatVars, pureVars, mapVars, trendVars>>

ShowEgregiousGouges ==
    /\ main.pc = "fetched"
    /\ \E out \in show_egregious_gouges(df, column_config) :
          /\ df_display' = out
          /\ main' = [main EXCEPT !.pc = IF out.status = "raised" THEN "raised" ELSE "shown"]
    /\ UNCHANGED <<df, aggVars, heightVars, formatVars, pureVars, mapVars, trendVars>>

NextMain == QueryEgregiousGouges \/ ShowEgregiousGouges

SpecMain == InitMain /\ [][NextMain]_vars

(***************************************************************************)
(* Map section: the user selects partitions one after the other; each        *)
(* selection reruns display_map_section.  The data service may revise its    *)
(* data in between.                                                          *)
(***************************************************************************)
InitMap ==
    /\ MapIdle
    /\ AggIdle /\ HeightIdle /\ FormatIdle /\ TableIdle /\ PureIdle /\ MainIdle /\ TrendIdle

DisplayMapSection ==
    /\ map_runs.renders < MaxRenders
    /\ \E selected_label \in Labels :
          LET made == create_map_data(map_cache, geo_cache, query_log,
                                      service_version, selected_label)
          IN /\ map_cache' = made.map_cache
             /\ geo_cache' = made.geo_cache
             /\ query_log' = made.query_log
             /\ \E run \in display_map_section(selected_label, made.value) :
                   /\ map_section' = run
                   /\ map_runs' = [renders |-> map_runs.renders + 1,
                                   aggregations |-> map_runs.aggregations + 1,
                                   sizings |-> map_runs.sizings
                                       + (IF run.status = "rendered" THEN 1 ELSE 0)]
    /\ UNCHANGED <<service_version, aggVars, heightVars, formatVars, tableVars,
                   pureVars, mainVars, trendVars>>

ServiceRevised ==
    /\ service_version < MaxVersions
    /\ service_version' = service_version + 1
    /\ UNCHANGED <<map_cache, geo_cache, query_log, map_section, map_runs,
                   aggVars, heightVars, formatVars, tableVars,
                   pureVars, mainVars, trendVars>>

NextMap == DisplayMapSection \/ ServiceRevised

SpecMap == InitMap /\ [][NextMap]_vars

(***************************************************************************)
(* Repeated calls: prepare_table_data on one feature collection, or         *)
(* display_gouges_table on one frame and the registry, called again and     *)
(* again on the same objects.                                               *)
(***************************************************************************)
NoFrame == [columns |-> {}, rows |-> <<>>]

InitPure ==
    /\ column_config = create_column_config
    /\ calls = 0
    /\ table_data = NotCalled
    /\ agg_caller = "none"
    /\ df_display = TableNotCalled
    /\ \/ /\ features \in SeqsUpTo(Properties, MaxPureFeatures)
          /\ is_city \in BOOLEAN
          /\ df = NoFrame
       \/ /\ features = <<>>
          /\ is_city = FALSE
          /\ df \in PureListingFrames
    /\ HeightIdle /\ FormatIdle /\ MainIdle /\ MapIdle /\ TrendIdle

PrepareTableDataAgain ==
    /\ calls < MaxCalls
    /\ df = NoFrame
    /\ \E out \in prepare_table_data(features, is_city) : table_data' = out
    /\ features' = geojson_data_after(features, is_city)
    /\ agg_caller' = "map_display"
    /\ calls' = calls + 1
    /\ UNCHANGED <<is_city, df, df_display, column_config,
                   heightVars, formatVars, mainVars, mapVars, trendVars>>

DisplayGougesTableAgain ==
    /\ calls < MaxCalls
    /\ df # NoFrame
    /\ \E out \in display_gouges_table(df, column_config) : df_display' = out
    /\ df' = df_after(df, column_config)
    /\ column_config' = column_config_after(df, column_config)
    /\ calls' = calls + 1
    /\ UNCHANGED <<aggVars, heightVars, formatVars, mainVars, mapVars, trendVars>>

NextPure == PrepareTableDataAgain \/ DisplayGougesTableAgain

SpecPure == InitPure /\ [][NextPure]_vars

(***************************************************************************)
(* Trend metric: main computes it once from the rows of agg_by_date and     *)
(* today's date.                                                            *)
(***************************************************************************)
InitTrend ==
    /\ trend_in \in [rows : SeqsUpTo(TrendRow, MaxTrendRows),
                     today : {1, MaxDay + 1, MaxDay + 8}]
    /\ trend = TrendNotComputed
    /\ AggIdle /\ HeightIdle /\ FormatIdle /\ TableIdle /\ PureIdle /\ MainIdle /\ MapIdle

ComputeTrend ==
    /\ trend.status = "none"
    /\ trend' = TrendMetric(trend_in.rows, trend_in.today)
    /\ UNCHANGED <<trend_in, aggVars, heightVars, formatVars, tableVars,
                   pureVars, mainVars, mapVars>>

NextTrend == ComputeTrend

SpecTrend == InitTrend /\ [][NextTrend]_vars

(***************************************************************************)
(* Properties of the aggregation (SpecAgg).                                 *)
(***************************************************************************)
AggCalled == agg_caller # "none"
AggReturned == AggCalled /\ table_data.status = "returned"

RECURSIVE SumCounts(_)
SumCounts(rows) ==
    IF rows = <<>> THEN 0 ELSE Head(rows).gouged_listings + SumCounts(Tail(rows))

\* total of gouged_listings over the input features whose region title-cases to name
RECURSIVE SumTitled(_, _)
SumTitled(fs, name) ==
    IF fs = <<>> THEN 0
    ELSE (IF Title(Head(fs).region) = name THEN Head(fs).gouged_listings ELSE 0)
         + SumTitled(Tail(fs), name)

TitledNames == {Title(features[i].region) : i \in 1..Len(features)}

\* C2: prepare_table_data on a feature collection with zero features returns an
\* empty table and does not raise, with is_city_data True and with it False.
C2_EmptyCollectionEmptyTable ==
    (AggCalled /\ features = <<>>) =>
        (table_data.status = "returned" /\ table_data.rows = <<>>)

\* C3: with is_city_data=True the returned table has exactly one row per distinct
\* title-cased region name, and the row's gouged_listings is the sum over the
\* input features whose region title-cases to that name.
C3_MergeOneRowPerTitledName ==
    (AggReturned /\ is_city) =>
        /\ {table_data.rows[i].region : i \in 1..Len(table_data.rows)} = TitledNames
        /\ Len(table_data.rows) = Cardinality(TitledNames)
        /\ \A i \in 1..Len(table_data.rows) :
              table_data.rows[i].gouged_listings
                  = SumTitled(features, table_data.rows[i].region)

\* 'Van Nuys':3 and 'van nuys':2 have been merged into the one row 'Van Nuys':5
C3_Witness ==
    /\ AggReturned /\ is_city
    /\ features = <<[region |-> VanNuys, gouged_listings |-> 3],
                    [region |-> vanNuysLower, gouged_listings |-> 2]>>
    /\ table_data.rows = <<[index |-> 0, region |-> VanNuys, gouged_listings |-> 5]>>

\* C4: the sum of gouged_listings over the returned rows equals the sum over the
\* input features, with and without merging.
C4_Conservation ==
    AggReturned => SumCounts(table_data.rows) = SumCounts(features)

\* casing duplicates were merged and rows with the same count exist
C4_Witness ==
    /\ AggReturned /\ is_city
    /\ Len(features) = 3 /\ Len(table_data.rows) = 2
    /\ SumCounts(features) = 6

\* C5: every returned table is ordered by gouged_listings non-increasing.
C5_SortedDescending ==
    AggReturned =>
        \A i \in 1..(Len(table_data.rows) - 1) :
            table_data.rows[i].gouged_listings >= table_data.rows[i + 1].gouged_listings

\* a row that came last in the input has been moved to the front
C5_Witness ==
    /\ AggReturned /\ ~is_city
    /\ Len(features) = 3
    /\ features[1].gouged_listings < features[2].gouged_listings
    /\ features[2].gouged_listings < features[3].gouged_listings
    /\ table_data.rows[1].index = 2

\* position (from 1) in the input of the first feature a returned row stems from
FirstOccurrence(row) ==
    IF is_city
    THEN CHOOSE k \in 1..Len(features) :
            /\ Title(features[k].region) = row.region
            /\ \A m \in 1..(k - 1) : Title(features[m].region) # row.region
    ELSE row.index + 1

\* C6: the sort is stable: two returned rows with equal gouged_listings are in the
\* relative order of their (first) occurrence in the input, in both merge modes.
C6_StableTieBreak ==
    AggReturned =>
        \A i, j \in 1..Len(table_data.rows) :
            (i < j /\ table_data.rows[i].gouged_listings = table_data.rows[j].gouged_listings)
                => FirstOccurrence(table_data.rows[i]) < FirstOccurrence(table_data.rows[j])

\* C7: with is_city_data=False nothing is grouped: the returned table has as many
\* rows as the input has features and is a permutation of the input records.
C7_NoMergePermutation ==
    (AggReturned /\ ~is_city) =>
        /\ Len(table_data.rows) = Len(features)
        /\ {table_data.rows[i].index : i \in 1..Len(table_data.rows)}
               = 0..(Len(features) - 1)
        /\ \A i \in 1..Len(table_data.rows) :
              LET f == features[table_data.rows[i].index + 1]
              IN /\ table_data.rows[i].region = f.region
                 /\ table_data.rows[i].gouged_listings = f.gouged_listings

\* casing duplicates of one name stay separate rows
C7_Witness ==
    /\ AggReturned /\ ~is_city
    /\ Len(table_data.rows) = 3
    /\ features[1].region = VanNuys /\ features[2].region = vanNuysLower
    /\ features[3].region = VanNuys

(***************************************************************************)
(* Properties of the sizing policy (SpecHeight).                            *)
(***************************************************************************)
HeightOf(caller, n) ==
    IF caller = "app" THEN app_calculate_table_height(n) ELSE calculate_table_height(n)

\* C8: calculate_table_height(n) = clamp(n * 42, 200, 600) for every n >= 0: the
\* result lies in [200, 600], is 200 for n = 0, and does not decrease with n.
C8_HeightClamp ==
    height_caller # "none" =>
        /\ height = (IF num_rows * 42 < 200 THEN 200
                     ELSE IF num_rows * 42 > 600 THEN 600
                     ELSE num_rows * 42)
        /\ 200 <= height /\ height <= 600
        /\ (num_rows = 0 => height = 200)
        /\ \A m \in 0..num_rows : HeightOf(height_caller, m) <= height

\* a height strictly between the two limits
C8_Witness ==
    /\ height_caller # "none"
    /\ num_rows = 10
    /\ height = 420

(***************************************************************************)
(* Properties of the formatter (SpecFormat).                                *)
(***************************************************************************)
\* C1: format_value never raises: for every value (null, empty string, strings
\* that are no number), every declared format type and every column hint,
\* 'bedrooms' included, the call returns a value.
C1_FormatValueNeverRaises ==
    fv_result.status # "raised"

(***************************************************************************)
(* Properties of the listing table (SpecTable).                             *)
(***************************************************************************)
TableCalled == df_display.status # "none"
TableReturned == df_display.status = "returned"
Shown == {c.field : c \in {e \in Range(create_column_config) : e.display}}

C10_AddressCityMerged ==
    TableReturned =>
        /\ Cardinality({j \in 1..Len(df_display.columns) :
                          df_display.columns[j] = "address"}) = 1
        /\ "city" \notin Range(df_display.columns)
        /\ \A i \in 1..Len(df.rows) :
              (df.rows[i]["address"].kind = "str" /\ df.rows[i]["city"].kind = "str") =>
                  /\ DOMAIN df_display.rows[i] = Range(df_display.columns)
                  /\ df_display.rows[i]["address"] =
                        Str(Title(Lower(df.rows[i]["address"].chars)) \o <<",", " ">>
                            \o Title(Lower(df.rows[i]["city"].chars)))

\* '123 main st', 'los angeles' -> '123 Main St, Los Angeles'
C10_Witness ==
    /\ TableReturned
    /\ df.rows[1]["address"] = Str(MainSt)
    /\ df.rows[1]["city"] = Str(LosAngeles)
    /\ df_display.rows[1]["address"] =
          Str(<<"1", "2", "3", " ", "M", "a", "i", "n", " ", "S", "t", ",", " ",
                "L", "o", "s", " ", "A", "n", "g", "e", "l", "e", "s">>)

\* C11: when a field the registry shows is absent from the listing records
\* (address and city included), display_gouges_table does not fail: the table is
\* still built.
C11_MissingFieldTolerated ==
    (TableCalled /\ ~(Shown \subseteq df.columns)) => TableReturned

(***************************************************************************)
(* Properties of the formatter, continued (SpecFormat).                     *)
(***************************************************************************)
FormatCalled == fv_result.status # "none"
IsNumber(value) == value.kind \in {"int", "float"}

\* the digits of a formatted amount, and the places of its commas
AmountDigits(body) == SelectSeq(body, IsDigit)
CommasEveryThree(body) ==
    /\ body # <<>> /\ body[1] # ","
    /\ \A i \in 1..Len(body) : (body[i] = ",") <=> ((Len(body) - i + 1) % 4 = 0)

\* the result is '$' and the integer r with comma thousands separators
IsCurrencyOf(result, r) ==
    /\ result.status = "returned"
    /\ result.value.kind = "str"
    /\ result.value.chars # <<>>
    /\ Head(result.value.chars) = "$"
    /\ AmountDigits(Tail(result.value.chars)) = IntToStr(r)
    /\ CommasEveryThree(Tail(result.value.chars))
    /\ \A i \in 1..Len(Tail(result.value.chars)) :
          IsDigit(Tail(result.value.chars)[i]) \/ Tail(result.value.chars)[i] = ","

\* C12 as stated: for a well-formed number, format_value(value, 'currency') is '$'
\* and the value rounded to zero decimals, a half rounding up (1234.5 ->
\* '$1,235'), with comma thousands separators.
C12_CurrencyHalfUp ==
    (FormatCalled /\ fv_type = "currency" /\ IsNumber(fv_value)) =>
        IsCurrencyOf(fv_result, (fv_value.halves + 1) \div 2)

\* C12 as amended: the value is rounded to the nearest integer, a half going to
\* the even neighbour (1234.5 -> '$1,234', 1235.5 -> '$1,236').
C12_CurrencyHalfEven ==
    (FormatCalled /\ fv_type = "currency" /\ IsNumber(fv_value)) =>
        \E r \in 0..(fv_value.halves + 1) :
            /\ 2 * r - fv_value.halves \in {-1, 0, 1}
            /\ (2 * r # fv_value.halves) => r % 2 = 0
            /\ IsCurrencyOf(fv_result, r)

\* 1234.5 -> '$1,234'
C12_Witness ==
    /\ FormatCalled /\ fv_type = "currency"
    /\ fv_value = FloatV(2469)
    /\ fv_result.value = Str(<<"$", "1", ",", "2", "3", "4">>)

\* a string float() rejects: empty, or holding a letter
NotANumber(value) ==
    /\ value.kind = "str"
    /\ value.chars = <<>> \/ \E i \in 1..Len(value.chars) : IsCased(value.chars[i])

\* C13: for the types date, percent and currency, a value that is not absent and
\* cannot be parsed is returned itself, unchanged.
C13_UnparsedReturnedUnchanged ==
    (/\ FormatCalled
     /\ ~isna(fv_value)
     /\ \/ fv_type \in {"percent", "currency"} /\ NotANumber(fv_value)
        \/ fv_type = "date" /\ fv_parse = "error")
        => fv_result = Value(fv_value)

\* a string pd.to_datetime rejected has come back as it was
C13_Witness ==
    /\ FormatCalled /\ fv_type = "date" /\ fv_parse = "error"
    /\ fv_value = Str(<<"a", " ", "B">>)
    /\ fv_result.value = Str(<<"a", " ", "B">>)

(***************************************************************************)
(* Properties of the egregious gouges section (SpecMain).                   *)
(***************************************************************************)
\* place of a field in the registry
RegistryPlace(field) ==
    CHOOSE i \in 1..Len(create_column_config) : create_column_config[i].field = field
Hidden == {c.field : c \in {e \in Range(create_column_config) : ~e.display}}

\* C14: registry fields with display=False are neither in the field-selection
\* list sent to the data source for the egregious_gouges query nor in the rendered
\* table; the selection list is exactly the display=True fields in registry order.
C14_HiddenFieldsNeitherQueriedNorShown ==
    main.pc # "start" =>
        /\ Range(main.selection) = Shown
        /\ Range(main.selection) \cap Hidden = {}
        /\ \A i, j \in 1..Len(main.selection) :
              i < j => RegistryPlace(main.selection[i]) < RegistryPlace(main.selection[j])
        /\ main.pc = "shown" =>
              /\ Range(df_display.columns) \cap Hidden = {}
              /\ \A j \in 1..Len(df_display.directives) :
                    df_display.directives[j].column \notin Hidden

\* the seven shown fields were selected, link first, and the table was rendered
C14_Witness ==
    /\ main.pc = "shown"
    /\ Len(main.selection) = 7
    /\ main.selection[1] = "listing_url"
    /\ main.selection[7] = "base_vs_latest_price"
    /\ "latest_price" \in Range(df_display.columns)

(***************************************************************************)
(* Render directives of the listing table (SpecTable).                      *)
(***************************************************************************)
RegistryEntry(field) == create_column_config[RegistryPlace(field)]

ModeOf(field) ==
    IF RegistryEntry(field).is_link THEN "link"
    ELSE IF field = "base_vs_latest_price" THEN "progress"
    ELSE "text"

DirectivesFollowRegistry ==
    \A j \in 1..Len(df_display.directives) :
        LET d == df_display.directives[j]
        IN /\ d.mode = ModeOf(d.column)
           /\ d.label = RegistryEntry(d.column).name
           /\ d.mode = "progress" => d.max_value = 200

\* C15 as stated: exactly one render directive per visible registry column, its
\* mode link when is_link=True, progress (scale capped at 200) only for
\* base_vs_latest_price, plain text for every other column.
C15_DirectivePerVisibleRegistryColumn ==
    TableReturned =>
        /\ \A f \in Shown :
              Cardinality({j \in 1..Len(df_display.directives) :
                              df_display.directives[j].column = f}) = 1
        /\ \A j \in 1..Len(df_display.directives) :
              df_display.directives[j].column \in Shown
        /\ DirectivesFollowRegistry

\* C15 as amended: exactly one render directive per column of the built table,
\* that is per display=True registry field other than city (merged into
\* address); the modes as stated.
C15_DirectivePerTableColumn ==
    TableReturned =>
        /\ Len(df_display.directives) = Len(df_display.columns)
        /\ \A j \in 1..Len(df_display.columns) :
              df_display.directives[j].column = df_display.columns[j]
        /\ \A f \in Shown \ {"city"} :
              Cardinality({j \in 1..Len(df_display.directives) :
                              df_display.directives[j].column = f}) = 1
        /\ \A j \in 1..Len(df_display.directives) :
              df_display.directives[j].column \in Shown \ {"city"}
        /\ DirectivesFollowRegistry

\* a link, a progress and a text directive were emitted, none for city
C15_Witness ==
    /\ TableReturned
    /\ \E i, j, k \in 1..Len(df_display.directives) :
          /\ df_display.directives[i].column = "listing_url"
          /\ df_display.directives[i].mode = "link"
          /\ df_display.directives[j].column = "base_vs_latest_price"
          /\ df_display.directives[j].mode = "progress"
          /\ df_display.directives[k].column = "address"
          /\ df_display.directives[k].mode = "text"
    /\ \A j \in 1..Len(df_display.directives) : df_display.directives[j].column # "city"

(***************************************************************************)
(* Properties of the map section (SpecMap).                                 *)
(***************************************************************************)
MapRan == map_section.status # "none"
MapRendered == map_section.status = "rendered"
MapRows == map_section.table_data.rows

\* C16: for any sequence of partition selections, aggregation runs with merging
\* enabled if and only if the selected partition is 'Cities'; for the districts
\* and the ZIP codes rows are never grouped.
C16_MergeOnlyForCities ==
    MapRan =>
        /\ map_section.is_city_data <=> map_section.selected_label = "Cities"
        /\ (MapRendered /\ map_section.selected_label # "Cities") =>
              /\ Len(MapRows) = Len(map_section.geojson_data)
              /\ \A i \in 1..Len(MapRows) :
                    MapRows[i].region = map_section.geojson_data[MapRows[i].index + 1].region
        /\ (MapRendered /\ map_section.selected_label = "Cities") =>
              /\ \A i, j \in 1..Len(MapRows) : i # j => MapRows[i].region # MapRows[j].region
              /\ \A i \in 1..Len(MapRows) : MapRows[i].region = Title(MapRows[i].region)

\* 'Cities' selected after 'ZIP Codes': the casing duplicates were merged
C16_Witness ==
    /\ MapRendered
    /\ map_runs.renders >= 2
    /\ "ZIP Codes" \in DOMAIN map_cache
    /\ map_section.selected_label = "Cities"
    /\ map_section.is_city_data
    /\ Len(MapRows) < Len(map_section.geojson_data)

\* C17: the table height handed to the renderer is calculate_table_height of the
\* number of aggregated rows (after merging), not of the number of raw features.
C17_HeightOfAggregatedRows ==
    MapRendered =>
        map_section.height =
            (IF Len(MapRows) * 42 < 200 THEN 200
             ELSE IF Len(MapRows) * 42 > 600 THEN 600
             ELSE Len(MapRows) * 42)

\* five merged rows out of more features: 210, where the features would give more
C17_Witness ==
    /\ MapRendered
    /\ map_section.selected_label = "Cities"
    /\ Len(MapRows) = 5
    /\ Len(map_section.geojson_data) >= 6
    /\ map_section.height = 210

TableOf(selected_label) == MapConfig(selected_label).table_name

\* C20: in one cache lifetime the data service is queried at most once per
\* partition; a re-selected partition is served the feature collection first
\* fetched for it; aggregation and sizing are recomputed on every render.
C20_OneQueryPerPartition ==
    /\ \A t \in DOMAIN query_log : Len(query_log[t]) <= 1
    /\ MapRan =>
          /\ TableOf(map_section.selected_label) \in DOMAIN query_log
          /\ map_section.geojson_data = query_log[TableOf(map_section.selected_label)][1]
    /\ map_runs.aggregations = map_runs.renders
    /\ map_runs.sizings = map_runs.renders

\* a partition rendered a third time after the service revised its data: one
\* query, the collection of the first fetch
C20_Witness ==
    /\ map_runs.renders = 3
    /\ map_runs.aggregations = 3
    /\ DOMAIN query_log = {"city_geojson"}
    /\ service_version = 1
    /\ map_section.geojson_data = ServiceData("city_geojson", 0)
    /\ map_section.geojson_data # ServiceData("city_geojson", service_version)

(***************************************************************************)
(* Properties of repeated calls (SpecPure).                                 *)
(***************************************************************************)
\* two outputs of prepare_table_data that differ at most in the order of rows
\* with equal counts
SameTable(a, b) ==
    /\ a.status = b.status
    /\ a.columns = b.columns
    /\ Len(a.rows) = Len(b.rows)
    /\ Range(a.rows) = Range(b.rows)
    /\ \A i \in 1..Len(a.rows) : a.rows[i].gouged_listings = b.rows[i].gouged_listings

TrendComputed == trend.status = "computed"
NonNegativeCounts ==
    \A i \in 1..Len(trend_in.rows) : trend_in.rows[i].gouged_listings >= 0

\* C19: with non-negative per-date counts the delta percentage never divides by
\* zero (the division is done only when prior_to_seven_days_total > 0, and then
\* total_gouged > 0), the result lies in [0, 100], and last_seven_days +
\* prior_to_seven_days_total = total_gouged.
C19_TrendMetricSafe ==
    (TrendComputed /\ NonNegativeCounts) =>
        /\ trend.divided => (trend.prior_to_seven_days_total > 0 /\ trend.total_gouged > 0)
        /\ trend.delta_den > 0
        /\ 0 <= trend.delta_num
        /\ trend.delta_num <= 100 * trend.delta_den
        /\ trend.last_seven_days + trend.prior_to_seven_days_total = trend.total_gouged

\* a count on the threshold day itself and a later one: the division is done,
\* both sides of the threshold are non-empty
C19_Witness ==
    /\ TrendComputed /\ NonNegativeCounts
    /\ trend.divided
    /\ trend.last_seven_days > 0
    /\ \E i \in 1..Len(trend_in.rows) :
          /\ trend_in.rows[i].first_gouged_price_date
                = SevenDaysAgo(trend_in.rows, trend_in.today)
          /\ trend_in.rows[i].gouged_listings > 0

====
